---- MODULE Spec2Model ----
(***************************************************************************)
(* Model of the authentication service (internal/services/auth/auth.go)    *)
(* and of the token issuer (internal/lib/jwt.go).                          *)
(*                                                                         *)
(* The service is stateless: its operations Login, RegisterNewUser and     *)
(* isAdmin are modelled as operators computing the returned values and the *)
(* sequence of collaborator calls, and one action per operation applies    *)
(* the operator to the user store.  The stores, the bcrypt hasher and the  *)
(* HS256 signer are the collaborators the service calls.                   *)
(***************************************************************************)
EXTENDS Integers, Sequences, FiniteSets, TLC

(* ------------------------------ bounds --------------------------------- *)
MaxSalt == 2          \* salts bcrypt.GenerateFromPassword may draw
MaxClock == 1         \* wall-clock instants (in ticks) a call may observe
TicksPerSec == 2      \* clock ticks per second: instants are sub-second
TokenTTL == 3         \* the tokenTTL the service is constructed with, in ticks

Emails == {"a@x", "b@x", "old@x"}
LegacyEmail == "old@x"
PasswordKeys == {"p", "q"}
AppIDs == {1, 2, 3}
UserIDs == 1 .. 4
AdminIDs == {1}       \* the ids the user store flags as administrators

(* ------------------------------ errors --------------------------------- *)
\* A Go error: the chain of fmt.Errorf("%s: %w") prefixes around a cause.
\* A sentinel (errors.New) is a cause with no prefix; its package makes two
\* sentinels with the same text different values.
Sentinel(pkg, text) == [ops |-> <<>>, cause |-> [pkg |-> pkg, text |-> text]]

Nil == Sentinel("", "")

ErrInvalidCredentials == Sentinel("auth", "invalID credentials")
ErrInvalidAppID == Sentinel("auth", "invalid appID")
ErrUserExists == Sentinel("auth", "user already exists")

StorageErrUserNotFound == Sentinel("storage", "user not found")
StorageErrUserExists == Sentinel("storage", "user already exists")
StorageErrAppNotFound == Sentinel("storage", "app not found")
StorageErrDriver == Sentinel("driver", "database is locked")

BcryptErrMismatched == Sentinel("bcrypt", "hashedPassword is not the hash of the given password")
BcryptErrHashTooShort == Sentinel("bcrypt", "hashedSecret too short to be a bcrypted password")
BcryptErrPasswordTooLong == Sentinel("bcrypt", "password length exceeds 72 bytes")

\* fmt.Errorf("%s: %w", op, err)
Wrap(op, err) == [ops |-> <<op>> \o err.ops, cause |-> err.cause]

IsSuffix(s, t) ==
    /\ Len(s) <= Len(t)
    /\ SubSeq(t, Len(t) - Len(s) + 1, Len(t)) = s

\* errors.Is(err, target): some error of err's Unwrap chain equals target.
ErrorsIs(err, target) ==
    /\ err # Nil
    /\ err.cause = target.cause
    /\ IsSuffix(target.ops, err.ops)

OpLogin == "auth.Login"
OpRegisterNewUser == "auth.RegisterNewUser"
OpIsAdmin == "auth.IsAdmin"

(* --------------------------- credential hasher ------------------------- *)
\* A password is a byte string; the model keeps its identity and its length.
BcryptMaxLen == 72
DefaultCost == 10
ShortLen == 8
LongLen == BcryptMaxLen + 1

Passwords == [key : PasswordKeys, len : {ShortLen}] \cup [key : {"q"}, len : {LongLen}]

\* A stored hash that is not a bcrypt hash (too short, bad prefix).
MalformedHash == [pw |-> [key |-> "", len |-> 0], salt |-> 0, cost |-> 0]

\* bcrypt.GenerateFromPassword(password, cost), with the salt it draws.
GenerateFromPassword(password, cost, salt) ==
    IF password.len > BcryptMaxLen
      THEN [hash |-> MalformedHash, err |-> BcryptErrPasswordTooLong]
      ELSE [hash |-> [pw |-> password, salt |-> salt, cost |-> cost], err |-> Nil]

\* bcrypt.CompareHashAndPassword(hashedPassword, password)
CompareHashAndPassword(hash, password) ==
    IF hash.cost = 0 THEN BcryptErrHashTooShort
    ELSE IF password.len > BcryptMaxLen THEN BcryptErrPasswordTooLong
    ELSE IF hash.pw # password THEN BcryptErrMismatched
    ELSE Nil

(* ------------------------------- stores -------------------------------- *)
NoUser == [Id |-> 0, Name |-> "", PassHash |-> MalformedHash]
NoApp == [Id |-> 0, Secret |-> ""]

\* The tenant applications the application store holds.
Apps == [i \in {1, 2} |-> [Id |-> i, Secret |-> IF i = 1 THEN "secret-1" ELSE "secret-2"]]

\* UserProvider.User: the user with this email, or "not found", or a failure.
StoreUser(us, email, fault) ==
    IF fault THEN [user |-> NoUser, err |-> Wrap("storage.User", StorageErrDriver)]
    ELSE IF email \notin DOMAIN us
      THEN [user |-> NoUser, err |-> Wrap("storage.User", StorageErrUserNotFound)]
    ELSE [user |-> us[email], err |-> Nil]

\* UserProvider.IsAdmin: the privilege flag of the user with this id.
StoreIsAdmin(us, adm, userID, fault) ==
    IF fault THEN [flag |-> FALSE, err |-> Wrap("storage.IsAdmin", StorageErrDriver)]
    ELSE IF \A e \in DOMAIN us : us[e].Id # userID
      THEN [flag |-> FALSE, err |-> Wrap("storage.IsAdmin", StorageErrUserNotFound)]
    ELSE [flag |-> userID \in adm, err |-> Nil]

\* AppProvider.App: the application with this id.
StoreApp(appID, fault) ==
    IF fault THEN [app |-> NoApp, err |-> Wrap("storage.App", StorageErrDriver)]
    ELSE IF appID \notin DOMAIN Apps
      THEN [app |-> NoApp, err |-> Wrap("storage.App", StorageErrAppNotFound)]
    ELSE [app |-> Apps[appID], err |-> Nil]

\* UserSaver.SaveUser against a store with a unique index on the email.
StoreSaveUser(us, nxt, email, passHash, fault) ==
    IF fault
      THEN [id |-> 0, err |-> Wrap("storage.SaveUser", StorageErrDriver), users |-> us, nextId |-> nxt]
    ELSE IF email \in DOMAIN us
      THEN [id |-> 0, err |-> Wrap("storage.SaveUser", StorageErrUserExists), users |-> us, nextId |-> nxt]
    ELSE [id |-> nxt, err |-> Nil,
          users |-> [e \in DOMAIN us \cup {email} |->
                        IF e = email THEN [Id |-> nxt, Name |-> email, PassHash |-> passHash]
                        ELSE us[e]],
          nextId |-> nxt + 1]

(* ----------------------------- token issuer ---------------------------- *)
EmptyToken == [alg |-> "", claims |-> [none |-> 0], key |-> ""]

\* time.Time.Unix(): whole seconds since the epoch, rounded down.
Unix(t) == t \div TicksPerSec

\* Variant of NewToken: the instant and the duration are truncated to whole
\* seconds before they are added.
NewToken_TruncateFirst(user, app, duration, now) ==
    [token |-> [alg |-> "HS256",
                claims |-> [userId |-> user.Id,
                            email |-> user.Name,
                            exp |-> Unix(now) + Unix(duration),
                            app_id |-> app.Id],
                key |-> app.Secret],
     err |-> Nil]

\* jwt.NewToken(user, app, duration), called at instant now.  Signing with
\* HS256 and a []byte key does not fail.
NewToken(user, app, duration, now) ==
    [token |-> [alg |-> "HS256",
                claims |-> [userId |-> user.Id,
                            email |-> user.Name,
                            exp |-> Unix(now + duration),
                            app_id |-> app.Id],
                key |-> app.Secret],
     err |-> Nil]

(* ------------------------- authentication service ---------------------- *)
\* Variant of LoginUserFail: "not found" reported with the storage sentinel
\* that the application lookup failure uses.
LoginUserFail_AsAppNotFound(err) ==
    IF ErrorsIs(err, StorageErrUserNotFound)
      THEN Wrap(OpLogin, StorageErrAppNotFound)
      ELSE Wrap(OpLogin, err)

\* Login, lines 88-101: the user lookup failed with err.
LoginUserFail(err) ==
    IF ErrorsIs(err, StorageErrUserNotFound)
      THEN Wrap(OpLogin, ErrInvalidAppID)
      ELSE Wrap(OpLogin, err)

\* Variant of LoginCompareFail: the hasher's error is propagated.
LoginCompareFail_Propagate(err) == Wrap(OpLogin, err)

\* Login, lines 103-105: the password did not verify, with err.
LoginCompareFail(err) == Wrap(OpLogin, ErrInvalidCredentials)

\* Variant of LoginAppFail: the lookup error is propagated.
LoginAppFail_Propagate(err) == Wrap(OpLogin, err)

\* Login, lines 109-113: the application lookup failed with err.
LoginAppFail(err) == Wrap(OpLogin, StorageErrAppNotFound)

\* Login, lines 115-123: issue the token for the resolved user and app.
LoginIssue(user, app, ttl, now, calls) ==
    LET t == NewToken(user, app, ttl, now) IN
    IF t.err # Nil
      THEN [token |-> EmptyToken, err |-> Wrap(OpLogin, t.err), calls |-> Append(calls, "NewToken")]
      ELSE [token |-> t.token, err |-> Nil, calls |-> Append(calls, "NewToken")]

\* Login, lines 107-123: look the application up, then issue.
LoginApp(user, appID, ttl, now, appFault, calls) ==
    LET a == StoreApp(appID, appFault) IN
    IF a.err # Nil
      THEN [token |-> EmptyToken, err |-> LoginAppFail(a.err), calls |-> Append(calls, "App")]
      ELSE LoginIssue(user, a.app, ttl, now, Append(calls, "App"))

\* Variant of LoginVerify: no early exit on a password that does not verify.
LoginVerify_NoEarlyExit(user, password, appID, ttl, now, appFault, calls) ==
    LoginApp(user, appID, ttl, now, appFault, Append(calls, "Compare"))

\* Variant of LoginVerify: the test of the comparison's error is inverted.
LoginVerify_Inverted(user, password, appID, ttl, now, appFault, calls) ==
    LET err == CompareHashAndPassword(user.PassHash, password) IN
    IF err = Nil
      THEN [token |-> EmptyToken, err |-> Wrap(OpLogin, ErrInvalidCredentials),
            calls |-> Append(calls, "Compare")]
      ELSE LoginApp(user, appID, ttl, now, appFault, Append(calls, "Compare"))

\* Login, lines 103-123: verify the password, then go on.
LoginVerify(user, password, appID, ttl, now, appFault, calls) ==
    LET err == CompareHashAndPassword(user.PassHash, password) IN
    IF err # Nil
      THEN [token |-> EmptyToken, err |-> LoginCompareFail(err), calls |-> Append(calls, "Compare")]
      ELSE LoginApp(user, appID, ttl, now, appFault, Append(calls, "Compare"))

\* Auth.Login(ctx, email, password, appID)
Login(us, email, password, appID, ttl, now, userFault, appFault) ==
    LET u == StoreUser(us, email, userFault) IN
    IF u.err # Nil
      THEN [token |-> EmptyToken, err |-> LoginUserFail(u.err), calls |-> <<"User">>]
      ELSE LoginVerify(u.user, password, appID, ttl, now, appFault, <<"User">>)

\* Variant of RegisterSaveFail: "already exists" is wrapped like any failure.
RegisterSaveFail_WrapAll(err) == Wrap(OpRegisterNewUser, err)

\* Variant of RegisterSaveFail: other failures are returned as they came.
RegisterSaveFail_Raw(err) ==
    IF ErrorsIs(err, StorageErrUserExists)
      THEN ErrUserExists
      ELSE err

\* RegisterNewUser, lines 149-157: SaveUser failed with err.
RegisterSaveFail(err) ==
    IF ErrorsIs(err, StorageErrUserExists)
      THEN ErrUserExists
      ELSE Wrap(OpRegisterNewUser, err)

\* RegisterNewUser, lines 148-159: save the user with the generated hash.
RegisterSave(us, nxt, email, passHash, saveFault, calls) ==
    LET s == StoreSaveUser(us, nxt, email, passHash, saveFault) IN
    IF s.err # Nil
      THEN [id |-> 0, err |-> RegisterSaveFail(s.err), users |-> s.users,
            nextId |-> s.nextId, calls |-> Append(calls, "SaveUser")]
      ELSE [id |-> s.id, err |-> Nil, users |-> s.users,
            nextId |-> s.nextId, calls |-> Append(calls, "SaveUser")]

\* Auth.RegisterNewUser(ctx, email, password)
RegisterNewUser(us, nxt, email, password, salt, saveFault) ==
    LET h == GenerateFromPassword(password, DefaultCost, salt) IN
    IF h.err # Nil
      THEN [id |-> 0, err |-> Wrap(OpRegisterNewUser, h.err), users |-> us,
            nextId |-> nxt, calls |-> <<"Generate">>]
      ELSE RegisterSave(us, nxt, email, h.hash, saveFault, <<"Generate">>)

\* Variant of IsAdminFail: "not found" is not told from other failures.
IsAdminFail_NoClassify(err) == Wrap(OpIsAdmin, err)

\* isAdmin, lines 174-183: the privilege lookup failed with err.
IsAdminFail(err) ==
    IF ErrorsIs(err, StorageErrUserNotFound)
      THEN Wrap(OpIsAdmin, ErrInvalidAppID)
      ELSE Wrap(OpIsAdmin, err)

\* Auth.isAdmin(ctx, userID)
IsAdmin(us, adm, userID, adminFault) ==
    LET r == StoreIsAdmin(us, adm, userID, adminFault) IN
    IF r.err # Nil
      THEN [flag |-> FALSE, err |-> IsAdminFail(r.err), calls |-> <<"IsAdmin">>]
      ELSE [flag |-> r.flag, err |-> Nil, calls |-> <<"IsAdmin">>]

(* ------------------------------- state --------------------------------- *)
VARIABLES
    users,      \* the user store: email -> user
    nextId,     \* the id the store gives the next user
    res,        \* the last call: operation, arguments and returned values
    saved,      \* per email, what the first successful registration stored
    returned    \* the ids RegisterNewUser has returned, in order

vars == <<users, nextId, res, saved, returned>>

NoPassword == [key |-> "", len |-> 0]

\* fault names the collaborator call that fails in this invocation, if any.
NoArgs == [email |-> "", password |-> NoPassword, appID |-> 0, userID |-> 0,
           now |-> 0, fault |-> "none"]

NoRes == [op |-> "", args |-> NoArgs, token |-> EmptyToken, id |-> 0,
          flag |-> FALSE, err |-> Nil, calls |-> <<>>]

\* The store starts with one user that was not created by this service.
LegacyUsers == [e \in {LegacyEmail} |-> [Id |-> 1, Name |-> e, PassHash |-> MalformedHash]]

NoSaved == [e \in {} |-> [id |-> 0, hash |-> MalformedHash, password |-> NoPassword]]

Init ==
    /\ users = LegacyUsers
    /\ nextId = 2
    /\ res = NoRes
    /\ saved = NoSaved
    /\ returned = <<>>

DoLogin ==
    \E email \in Emails, password \in Passwords, appID \in AppIDs,
       now \in 0 .. MaxClock, fault \in {"none", "User", "App"} :
        LET r == Login(users, email, password, appID, TokenTTL, now,
                       fault = "User", fault = "App") IN
        /\ res' = [NoRes EXCEPT !.op = OpLogin,
                                !.args = [NoArgs EXCEPT !.email = email, !.password = password,
                                                        !.appID = appID, !.now = now,
                                                        !.fault = fault],
                                !.token = r.token, !.err = r.err, !.calls = r.calls]
        /\ UNCHANGED <<users, nextId, saved, returned>>

DoRegisterNewUser ==
    \E email \in Emails, password \in Passwords, salt \in 1 .. MaxSalt,
       fault \in {"none", "SaveUser"} :
        LET r == RegisterNewUser(users, nextId, email, password, salt, fault = "SaveUser") IN
        /\ users' = r.users
        /\ nextId' = r.nextId
        /\ res' = [NoRes EXCEPT !.op = OpRegisterNewUser,
                                !.args = [NoArgs EXCEPT !.email = email, !.password = password,
                                                        !.fault = fault],
                                !.id = r.id, !.err = r.err, !.calls = r.calls]
        /\ saved' = IF r.err = Nil /\ email \notin DOMAIN saved
                      THEN [e \in DOMAIN saved \cup {email} |->
                              IF e = email
                                THEN [id |-> r.id, hash |-> r.users[email].PassHash,
                                      password |-> password]
                                ELSE saved[e]]
                      ELSE saved
        /\ returned' = IF r.err = Nil THEN Append(returned, r.id) ELSE returned

DoIsAdmin ==
    \E userID \in UserIDs, fault \in {"none", "IsAdmin"} :
        LET r == IsAdmin(users, AdminIDs, userID, fault = "IsAdmin") IN
        /\ res' = [NoRes EXCEPT !.op = OpIsAdmin,
                                !.args = [NoArgs EXCEPT !.userID = userID, !.fault = fault],
                                !.flag = r.flag, !.err = r.err, !.calls = r.calls]
        /\ UNCHANGED <<users, nextId, saved, returned>>

Next == DoLogin \/ DoRegisterNewUser \/ DoIsAdmin

Spec == Init /\ [][Next]_vars

TypeOK ==
    /\ DOMAIN users \subseteq Emails
    /\ nextId \in 1 .. 5
    /\ res.op \in {"", OpLogin, OpRegisterNewUser, OpIsAdmin}

(* ------------------------ what the last call met ----------------------- *)
Range(f) == {f[i] : i \in DOMAIN f}

\* The password is the one the hash was generated from.
PasswordVerifies(hash, password) ==
    /\ hash.cost # 0
    /\ password.len <= BcryptMaxLen
    /\ hash.pw = password

\* The last call was a Login whose email resolved to a user of the store.
LoginResolvedUser ==
    /\ res.op = OpLogin
    /\ res.args.fault # "User"
    /\ res.args.email \in DOMAIN users

\* ... whose user lookup reported "not found".
LoginUserNotFound ==
    /\ res.op = OpLogin
    /\ res.args.fault # "User"
    /\ res.args.email \notin DOMAIN users

\* ... whose password did not verify against the resolved user's hash.
LoginWrongPassword ==
    /\ LoginResolvedUser
    /\ ~PasswordVerifies(users[res.args.email].PassHash, res.args.password)

\* ... whose password verified.
LoginVerified ==
    /\ LoginResolvedUser
    /\ PasswordVerifies(users[res.args.email].PassHash, res.args.password)

\* ... whose application lookup failed, the application missing or not.
LoginAppLookupFailed ==
    /\ LoginVerified
    /\ (res.args.fault = "App" \/ res.args.appID \notin DOMAIN Apps)

\* ... whose application lookup resolved the application.
LoginResolvedApp ==
    /\ LoginVerified
    /\ res.args.fault # "App"
    /\ res.args.appID \in DOMAIN Apps

\* The sentinels a caller classifies a failure with.
TaxonomyKinds == {ErrInvalidCredentials, ErrInvalidAppID, StorageErrAppNotFound, ErrUserExists}

\* The errors the collaborators hand to the service.
CollaboratorErrors ==
    {Wrap(o, c) : o \in {"storage.User", "storage.App", "storage.SaveUser", "storage.IsAdmin"},
                  c \in {StorageErrDriver, StorageErrUserNotFound, StorageErrUserExists,
                         StorageErrAppNotFound}}
    \cup {BcryptErrMismatched, BcryptErrHashTooShort, BcryptErrPasswordTooLong}

\* The failure Login returns when the application is not found.
LoginAppNotFoundFailure == LoginAppFail(Wrap("storage.App", StorageErrAppNotFound))

(* ------------------------------- claims -------------------------------- *)

\* C1: a Login whose email resolves to a user and whose password does not
\* verify against the stored hash (wrong password or malformed hash) fails
\* with ErrInvalidCredentials and an empty token, whatever the appID and
\* whatever the application store would have answered.
C1_WrongPasswordIsInvalidCredentials ==
    LoginWrongPassword =>
        /\ res.err = Wrap(OpLogin, ErrInvalidCredentials)
        /\ ErrorsIs(res.err, ErrInvalidCredentials)
        /\ \A k \in TaxonomyKinds \ {ErrInvalidCredentials} : ~ErrorsIs(res.err, k)
        /\ \A c \in CollaboratorErrors : ~ErrorsIs(res.err, c)
        /\ res.token = EmptyToken

C1_Witness ==
    /\ LoginWrongPassword
    /\ res.args.email \in DOMAIN saved
    /\ res.args.password # saved[res.args.email].password
    /\ res.args.appID \notin DOMAIN Apps
    /\ ErrorsIs(res.err, ErrInvalidCredentials)

\* C2 as stated: the failure of a Login whose user is not found matches
\* exactly the classification checks that the application-not-found failure
\* of Login matches.
C2_SameClassificationAsAppNotFound ==
    LoginUserNotFound =>
        \A k \in TaxonomyKinds :
            ErrorsIs(res.err, k) <=> ErrorsIs(LoginAppNotFoundFailure, k)

\* C2 amended: a Login whose user is not found fails with ErrInvalidAppID
\* (the sentinel isAdmin uses for an unknown user) wrapped with the
\* operation name and an empty token; that failure does not match the
\* storage app-not-found sentinel, which is what the application-not-found
\* failure of Login matches, and the latter does not match ErrInvalidAppID.
C2_UserNotFoundIsInvalidAppID ==
    LoginUserNotFound =>
        /\ res.err = Wrap(OpLogin, ErrInvalidAppID)
        /\ ErrorsIs(res.err, ErrInvalidAppID)
        /\ res.err.cause = IsAdminFail(Wrap("storage.IsAdmin", StorageErrUserNotFound)).cause
        /\ ~ErrorsIs(res.err, StorageErrAppNotFound)
        /\ ErrorsIs(LoginAppNotFoundFailure, StorageErrAppNotFound)
        /\ ~ErrorsIs(LoginAppNotFoundFailure, ErrInvalidAppID)
        /\ res.token = EmptyToken

C2_Witness ==
    /\ LoginUserNotFound
    /\ res.args.appID \in DOMAIN Apps
    /\ ErrorsIs(res.err, ErrInvalidAppID)

\* C3: a Login of an existing user with a password that verifies, whose
\* application lookup fails (not found, or any other store failure), fails
\* with the app-not-found kind and an empty token; the lookup's own error is
\* not in the returned error's chain.
C3_AppLookupFailureIsAppNotFound ==
    LoginAppLookupFailed =>
        /\ res.err = Wrap(OpLogin, StorageErrAppNotFound)
        /\ ErrorsIs(res.err, StorageErrAppNotFound)
        /\ ~ErrorsIs(res.err, StoreApp(res.args.appID, res.args.fault = "App").err)
        /\ res.err # StoreApp(res.args.appID, res.args.fault = "App").err
        /\ res.token = EmptyToken

C3_Witness ==
    /\ LoginAppLookupFailed
    /\ res.args.fault = "App"
    /\ res.args.appID \in DOMAIN Apps
    /\ ErrorsIs(res.err, StorageErrAppNotFound)

NoDuplicates(q) == \A i, j \in DOMAIN q : i # j => q[i] # q[j]

C5_IsAdminOutcomes ==
    res.op = OpIsAdmin =>
        LET exists == \E e \in DOMAIN users : users[e].Id = res.args.userID IN
        IF res.args.fault = "IsAdmin"
          THEN /\ res.err = Wrap(OpIsAdmin, Wrap("storage.IsAdmin", StorageErrDriver))
               /\ ErrorsIs(res.err, StorageErrDriver)
               /\ res.flag = FALSE
        ELSE IF ~exists
          THEN /\ res.err = Wrap(OpIsAdmin, ErrInvalidAppID)
               /\ ErrorsIs(res.err, ErrInvalidAppID)
               /\ res.err.cause = LoginUserFail(Wrap("storage.User", StorageErrUserNotFound)).cause
               /\ res.flag = FALSE
        ELSE /\ res.err = Nil
             /\ res.flag = (res.args.userID \in AdminIDs)

C5_Witness ==
    /\ res.op = OpIsAdmin
    /\ res.args.fault = "none"
    /\ \A e \in DOMAIN users : users[e].Id # res.args.userID
    /\ DOMAIN saved # {}
    /\ ErrorsIs(res.err, ErrInvalidAppID)

\* C6: a Login of an existing user with the right password and an existing
\* appID succeeds; its token carries exactly the claims userId, email, app_id
\* and exp: the resolved user's id and name, the resolved application's id,
\* and the whole seconds of the issuance instant plus tokenTTL; it is signed
\* with HS256 under the resolved application's secret and no other's.
C6_TokenClaims ==
    LoginResolvedApp =>
        LET user == users[res.args.email]
            app == Apps[res.args.appID]
        IN
        /\ res.err = Nil
        /\ res.token.alg = "HS256"
        /\ DOMAIN res.token.claims = {"userId", "email", "exp", "app_id"}
        /\ res.token.claims.userId = user.Id
        /\ res.token.claims.email = user.Name
        /\ res.token.claims.app_id = app.Id
        /\ res.token.claims.app_id = res.args.appID
        /\ res.token.claims.exp = (res.args.now + TokenTTL) \div TicksPerSec
        /\ res.token.key = app.Secret
        /\ \A a \in DOMAIN Apps \ {res.args.appID} : res.token.key # Apps[a].Secret

C6_Witness ==
    /\ LoginResolvedApp
    /\ res.err = Nil
    /\ res.args.appID = 2
    /\ res.args.now % TicksPerSec # 0
    /\ res.token.claims.userId = 3
    /\ res.token.key = Apps[2].Secret

\* The user store without the user of this email.
UsersWithout(email) == [e \in DOMAIN users \ {email} |-> users[e]]

\* C7: the result of a Login with a password that does not match an existing
\* email's hash is the result the same Login gives when the store holds no
\* user of that email: same error kind and message, same token.
C7_MismatchLooksLikeUserNotFound ==
    LoginWrongPassword =>
        LET other == Login(UsersWithout(res.args.email), res.args.email, res.args.password,
                           res.args.appID, TokenTTL, res.args.now, FALSE,
                           res.args.fault = "App")
        IN
        /\ res.err = other.err
        /\ res.token = other.token

\* C8: an error returned by Login, RegisterNewUser or isAdmin is the bare
\* ErrUserExists or carries the name of the operation that returned it as
\* its outermost prefix; it is never an error as a collaborator produced it;
\* it matches one taxonomy sentinel, or it wraps, and still matches, the
\* error the failing collaborator produced.
C8_ErrorsClassifiedOrWrapped ==
    (res.op # "" /\ res.err # Nil) =>
        LET inner == [ops |-> Tail(res.err.ops), cause |-> res.err.cause] IN
        /\ res.err \notin CollaboratorErrors
        /\ \/ res.op = OpRegisterNewUser /\ res.err = ErrUserExists
           \/ /\ res.err.ops # <<>>
              /\ Head(res.err.ops) = res.op
              /\ \/ inner \in TaxonomyKinds /\ ErrorsIs(res.err, inner)
                 \/ /\ inner \in CollaboratorErrors
                    /\ ErrorsIs(res.err, inner)
                    /\ \A k \in TaxonomyKinds : ~ErrorsIs(res.err, k)
                    /\ res.args.fault # "none" \/ res.args.password.len > BcryptMaxLen

C8_Witness ==
    /\ res.op = OpRegisterNewUser
    /\ res.args.fault = "SaveUser"
    /\ res.args.email \in DOMAIN saved
    /\ res.err = Wrap(OpRegisterNewUser, Wrap("storage.SaveUser", StorageErrDriver))

LoginSteps == <<"User", "Compare", "App", "NewToken">>

\* C9: Login calls the user lookup, the password comparison, the application
\* lookup and the token issuer in that order, each at most once, and stops at
\* the first that fails: the application is looked up and a token signed only
\* after the password verified, and the token is non-empty exactly when the
\* error is nil.  RegisterNewUser hashes, then calls SaveUser at most once and
\* not at all when hashing fails.  isAdmin queries the flag exactly once.
C9_LinearFlow ==
    /\ res.op = OpLogin =>
          /\ \E n \in 1 .. 4 : res.calls = SubSeq(LoginSteps, 1, n)
          /\ (res.err = Nil) <=> (res.calls = LoginSteps)
          /\ (res.token # EmptyToken) <=> (res.err = Nil)
          /\ (res.args.fault = "User" \/ res.args.email \notin DOMAIN users)
                => res.calls = <<"User">>
          /\ LoginWrongPassword => res.calls = <<"User", "Compare">>
          /\ LoginAppLookupFailed => res.calls = <<"User", "Compare", "App">>
          /\ "App" \in Range(res.calls) => LoginVerified
          /\ "NewToken" \in Range(res.calls) => LoginResolvedApp
    /\ res.op = OpRegisterNewUser =>
          /\ res.calls \in {<<"Generate">>, <<"Generate", "SaveUser">>}
          /\ ("SaveUser" \in Range(res.calls)) <=> (res.args.password.len <= BcryptMaxLen)
    /\ res.op = OpIsAdmin => res.calls = <<"IsAdmin">>

C9_Witness ==
    /\ LoginWrongPassword
    /\ res.args.email \in DOMAIN saved
    /\ res.args.appID \in DOMAIN Apps
    /\ res.args.fault = "none"
    /\ res.calls = <<"User", "Compare">>
    /\ res.token = EmptyToken

\* What a Login of a user registered through RegisterNewUser returns.
RoundTrip ==
    (res.op = OpLogin /\ res.args.fault # "User" /\ res.args.email \in DOMAIN saved) =>
        IF res.args.password # saved[res.args.email].password
          THEN /\ ErrorsIs(res.err, ErrInvalidCredentials)
               /\ res.token = EmptyToken
        ELSE (res.args.fault = "none" /\ res.args.appID \in DOMAIN Apps) =>
               /\ res.err = Nil
               /\ res.token.claims.userId = saved[res.args.email].id

\* C10: once RegisterNewUser(email, p) has succeeded with id, whatever calls
\* come in between, Login(email, p, appID) with an existing appID succeeds
\* with a token whose userId is id, and Login(email, q, appID) with q # p
\* fails with ErrInvalidCredentials; Login and isAdmin leave the user store
\* as it was.
C10_RegisterThenLogin ==
    [][res'.op \in {OpLogin, OpIsAdmin} =>
          /\ users' = users
          /\ nextId' = nextId
          /\ RoundTrip']_vars

C10_Witness ==
    /\ res.op = OpLogin
    /\ res.err = Nil
    /\ res.args.email \in DOMAIN saved
    /\ res.args.password = saved[res.args.email].password
    /\ res.token.claims.userId = saved[res.args.email].id
    /\ res.token.claims.userId = 3
    /\ Len(returned) = 2

====
